---- MODULE Spec2Model ----
(***************************************************************************)
(* Model of src/app.py: the AR campus navigation API.                      *)
(*                                                                         *)
(* Text that the code inspects character by character (path names, ids,    *)
(* display names) is a tuple of one-character strings; fixed message       *)
(* templates and exception texts are TLA+ strings.  Floating point         *)
(* coordinates are integers in a fixed unit, drawn even so that the        *)
(* code's division by two is exact.  An optional JSON member is a set      *)
(* with no element (member absent) or one element (its value).             *)
(***************************************************************************)
EXTENDS Integers, Sequences, FiniteSets, TLC

\* ------------------------------------------------------------------ bounds
\* Longest feature list of a dataset source.
MaxFeatures == 2
\* Most '-to-'-joined pieces of a requested path name.
MaxParts == 3
\* Requests in flight together in the concurrent specification.
MaxRequests == 2
\* Times the dataset source is replaced while requests are being served.
MaxReplace == 1

\* ------------------------------------------------------- Python built-ins
\* The separator literal of get_route.
SEP == <<"-", "t", "o", "-">>

\* Characters str.strip() removes (the model's alphabet has one of them).
Whitespace == {" "}

\* `sub in s` for str.
Contains(s, sub) ==
    \E i \in 1..(Len(s) - Len(sub) + 1) : SubSeq(s, i, i + Len(sub) - 1) = sub

\* s.find(sub) + 1, or 0 when sub does not occur: the leftmost occurrence.
FindFirst(s, sub) ==
    IF Contains(s, sub)
    THEN CHOOSE i \in 1..(Len(s) - Len(sub) + 1) :
            /\ SubSeq(s, i, i + Len(sub) - 1) = sub
            /\ \A j \in 1..(i - 1) : SubSeq(s, j, j + Len(sub) - 1) # sub
    ELSE 0

\* str.split(sep): scans left to right, cutting at each occurrence found
\* after the previous cut, so occurrences never overlap.
RECURSIVE split(_, _)
split(s, sep) ==
    LET i == FindFirst(s, sep)
    IN IF i = 0
       THEN <<s>>
       ELSE <<SubSeq(s, 1, i - 1)>> \o split(SubSeq(s, i + Len(sep), Len(s)), sep)

RECURSIVE lstrip(_)
lstrip(s) ==
    IF s # <<>> /\ Head(s) \in Whitespace THEN lstrip(Tail(s)) ELSE s

RECURSIVE rstrip(_)
rstrip(s) ==
    IF s # <<>> /\ s[Len(s)] \in Whitespace
    THEN rstrip(SubSeq(s, 1, Len(s) - 1))
    ELSE s

\* str.strip()
strip(s) == rstrip(lstrip(s))

\* --- values an expression of the route arithmetic can have: a float, a
\* list of floats, or a raised exception carrying str(e).
Float(n) == [t |-> "float", n |-> n, l |-> <<>>, m |-> ""]
List(l) == [t |-> "list", n |-> 0, l |-> l, m |-> ""]
Raise(m) == [t |-> "exc", n |-> 0, l |-> <<>>, m |-> m]

\* v[i] with a 0-based index
Index(v, i) ==
    IF v.t = "exc" THEN v
    ELSE IF v.t = "list"
         THEN IF i < Len(v.l) THEN Float(v.l[i + 1])
              ELSE Raise("list index out of range")
    ELSE Raise("'float' object is not subscriptable")

\* a + b, operands evaluated left to right
Add(a, b) ==
    IF a.t = "exc" THEN a
    ELSE IF b.t = "exc" THEN b
    ELSE IF a.t = "float" /\ b.t = "float" THEN Float(a.n + b.n)
    ELSE IF a.t = "list" /\ b.t = "list" THEN List(a.l \o b.l)
    ELSE IF a.t = "float"
         THEN Raise("unsupported operand type(s) for +: 'float' and 'list'")
    ELSE Raise("can only concatenate list (not \"float\") to list")

\* a / 2
Halve(a) ==
    IF a.t = "exc" THEN a
    ELSE IF a.t = "float" THEN Float(a.n \div 2)
    ELSE Raise("unsupported operand type(s) for /: 'list' and 'int'")

\* math.radians(a): the angle, kept by its measure in degrees.
radians(a) ==
    IF a.t = "exc" THEN a
    ELSE IF a.t = "float" THEN a
    ELSE Raise("must be real number, not list")

\* ------------------------------------------------------------ the dataset
\* A value json.load can return here: None (a JSON null document) or a
\* dict with its `features` member, if any, and its other members.
NoneValue == [kind |-> "None", members |-> {}, features |-> {}]
Dict(members, features) == [kind |-> "dict", members |-> members, features |-> features]

\* A feature object: optional id, optional geometry with optional
\* coordinates, optional properties (possibly JSON null) with optional name.
Feature(id, geometry, properties) ==
    [id |-> id, geometry |-> geometry, properties |-> properties]
Geometry(coordinates) == [coordinates |-> coordinates]
Properties(name) == [null |-> FALSE, name |-> name]
NullProperties == [null |-> TRUE, name |-> {}]

\* The features the model's dataset sources are built from.
Gate ==
    Feature({<<"a">>}, {Geometry({List(<<2, 4>>)})}, {Properties({<<"G", "a", "t", "e">>})})
Library ==
    Feature({<<"b">>}, {Geometry({List(<<6, 8>>)})}, {Properties({})})
Annex ==
    Feature({<<"b">>}, {Geometry({List(<<2, 4>>)})}, {NullProperties})
Ruin ==
    Feature({<<"c">>}, {}, {})
Stray ==
    Feature({}, {Geometry({Float(6)})}, {})
FeaturePool == {Gate, Library, Annex, Ruin, Stray}

FeatureLists == UNION {[1..n -> FeaturePool] : n \in 0..MaxFeatures}

\* The dataset source: the file GEOJSON_FILE names.  It is missing, cannot
\* be read as UTF-8 text, is no JSON text, or holds a JSON document.
SourceFile(state, doc) == [state |-> state, doc |-> doc]
Documents ==
    {NoneValue, Dict({}, {}), Dict({"type"}, {})}
        \cup {Dict({"type"}, {fs}) : fs \in FeatureLists}
Files ==
    {SourceFile(st, NoneValue) : st \in {"missing", "unreadable", "invalid_json"}}
        \cup {SourceFile("json", d) : d \in Documents}

\* The outcome of a call: the exception text str(e) ("" when none was
\* raised) and the returned value.
Returned(v) == [exc |-> "", value |-> v]
Raised(m) == [exc |-> m, value |-> NoneValue]

UnicodeDecodeError ==
    "'utf-8' codec can't decode byte 0xff in position 0: invalid start byte"

\* load_geojson_data with a parsed document validated as a feature
\* collection (what the code does not do).
load_geojson_data_validating(f) ==
    IF f.state = "unreadable" THEN Raised(UnicodeDecodeError)
    ELSE IF f.state = "json" /\ f.doc.features # {} THEN Returned(f.doc)
    ELSE Returned(NoneValue)

\* load_geojson_data without the JSONDecodeError handler.
load_geojson_data_nocatch(f) ==
    IF f.state = "missing" THEN Returned(NoneValue)
    ELSE IF f.state = "invalid_json"
         THEN Raised("Expecting value: line 1 column 1 (char 0)")
    ELSE IF f.state = "unreadable" THEN Raised(UnicodeDecodeError)
    ELSE Returned(f.doc)

\* load_geojson_data(): FileNotFoundError and JSONDecodeError are caught
\* and give None; any other exception of open/json.load propagates.
load_geojson_data(f) ==
    IF f.state = "missing" THEN Returned(NoneValue)
    ELSE IF f.state = "invalid_json" THEN Returned(NoneValue)
    ELSE IF f.state = "unreadable" THEN Raised(UnicodeDecodeError)
    ELSE Returned(f.doc)

\* `not data`: None and the empty dict are falsy.
Falsy(data) ==
    data.kind = "None" \/ (data.members = {} /\ data.features = {})

\* The loop of find_location_by_id: the first feature whose id matches.
RECURSIVE first_match(_, _)
first_match(features, location_id) ==
    IF features = <<>> THEN {}
    ELSE IF Head(features).id = {location_id} THEN {Head(features)}
    ELSE first_match(Tail(features), location_id)

\* find_location_by_id(data, location_id): the feature, or None ({}).
find_location_by_id(data, location_id) ==
    IF Falsy(data) \/ data.features = {} THEN {}
    ELSE first_match(CHOOSE fs \in data.features : TRUE, location_id)

\* ----------------------------------------------------------- the geometry
\* The first raised exception of a sequence of evaluated expressions.
RECURSIVE FirstExc(_)
FirstExc(vs) ==
    IF vs = <<>> THEN ""
    ELSE IF Head(vs).t = "exc" THEN Head(vs).m
    ELSE FirstExc(Tail(vs))

\* generate_simple_route(source_coords, dest_coords): the waypoint list, or
\* the exception its arithmetic raises.
generate_simple_route(source_coords, dest_coords) ==
    LET lon == Halve(Add(Index(source_coords, 0), dest_coords))
        lat == Halve(Add(Index(source_coords, 1), Index(dest_coords, 1)))
        exc == FirstExc(<<lon, lat>>)
    IN IF exc # ""
       THEN [exc |-> exc, waypoints |-> <<>>]
       ELSE [exc |-> "",
             waypoints |-> <<source_coords, List(<<lon.n, lat.n>>), dest_coords>>]

\* calculate_distance(coord1, coord2), nested in get_route.  Line 117 takes
\* both coord2[1] and math.radians(coord2) of the one value coord2: a float
\* fails the first and a list the second, so for every value the call ends
\* at line 116 or 117 with the first exception raised there, and the
\* arithmetic of lines 119-126 is never evaluated.
calculate_distance(coord1, coord2) ==
    LET lat1 == radians(Index(coord1, 1))
        lon1 == radians(Index(coord1, 0))
        lat2 == radians(Index(coord2, 1))
        lon2 == radians(coord2)
    IN Raise(FirstExc(<<lat1, lon1, lat2, lon2>>))

\* ---------------------------------------------------------- the responses
NoProperties ==
    [distance |-> <<>>, duration |-> <<>>, source_id |-> <<>>,
     destination_id |-> <<>>, source_name |-> <<>>, destination_name |-> <<>>]

\* A response: the HTTP status and what the body holds.  `shape` tells the
\* body's members: "error" (the single member `error`, a message template
\* with the id or the exception text it embeds), "route" (type, coordinates
\* and properties), "dataset" (the document itself), or "unhandled" (no
\* body of the handler: the exception left it and the framework answered).
Body(shape, error, id, message, type, coordinates, properties, data) ==
    [shape |-> shape, error |-> error, id |-> id, message |-> message,
     type |-> type, coordinates |-> coordinates, properties |-> properties,
     data |-> data]
Reply(status, body) == [status |-> status, body |-> body]

\* jsonify({"error": ...}), status
ErrorReply(status, error, id, message) ==
    Reply(status, Body("error", error, id, message, "", <<>>, NoProperties, NoneValue))

\* No response yet: the handler goes on.
Pass == Reply(0, Body("", "", <<>>, "", "", <<>>, NoProperties, NoneValue))

Unavailable == ErrorReply(500, "GeoJSON file not found or invalid", <<>>, "")
BadFormat ==
    ErrorReply(400, "Invalid route format. Use: source_id-to-destination_id", <<>>, "")
EmptyId == ErrorReply(400, "Source and destination IDs cannot be empty", <<>>, "")
SameEndpoint == ErrorReply(400, "Source and destination cannot be the same", <<>>, "")
SourceNotFound(id) == ErrorReply(404, "Source location '{source_id}' not found", id, "")
DestNotFound(id) == ErrorReply(404, "Destination location '{dest_id}' not found", id, "")
ServerError(message) == ErrorReply(500, "Server error: {str(e)}", <<>>, message)

\* An exception that leaves the handler: the framework answers 500 with its
\* own page.
Unhandled(message) ==
    Reply(500, Body("unhandled", "", <<>>, message, "", <<>>, NoProperties, NoneValue))

\* ------------------------------------------------------------- get_geojson
\* get_geojson past its load: lines 66-70.  The load is outside any try.
geojson_response(loaded) ==
    IF loaded.exc # "" THEN Unhandled(loaded.exc)
    ELSE IF loaded.value.kind = "None" THEN Unavailable
    ELSE Reply(200, Body("dataset", "", <<>>, "", "", <<>>, NoProperties, loaded.value))

\* --------------------------------------------------------------- get_route
\* The format check without the test of the number of parts.
format_error_contains_only(path_name) ==
    IF ~Contains(path_name, SEP) THEN BadFormat ELSE Pass

\* Lines 82-87: the format check.
format_error(path_name) ==
    IF ~Contains(path_name, SEP) THEN BadFormat
    ELSE IF Len(split(path_name, SEP)) # 2 THEN BadFormat
    ELSE Pass

\* Lines 85 and 89: source_id, dest_id.
parse_ids(path_name) ==
    LET parts == split(path_name, SEP)
    IN <<strip(parts[1]), strip(parts[2])>>

\* The id checks without the test for equal ids.
id_error_no_same(source_id, dest_id) ==
    IF source_id = <<>> \/ dest_id = <<>> THEN EmptyId ELSE Pass

\* Lines 91-95: the checks of the two ids.
id_error(source_id, dest_id) ==
    IF source_id = <<>> \/ dest_id = <<>> THEN EmptyId
    ELSE IF source_id = dest_id THEN SameEndpoint
    ELSE Pass

\* The not-found checks with the destination tested first.
lookup_error_dest_first(source_location, dest_location, source_id, dest_id) ==
    IF dest_location = {} THEN DestNotFound(dest_id)
    ELSE IF source_location = {} THEN SourceNotFound(source_id)
    ELSE Pass

\* Lines 101-105: the not-found checks (a matched feature has an id member,
\* so it is truthy).
lookup_error(source_location, dest_location, source_id, dest_id) ==
    IF source_location = {} THEN SourceNotFound(source_id)
    ELSE IF dest_location = {} THEN DestNotFound(dest_id)
    ELSE Pass

\* location['geometry']['coordinates']
coordinates_of(location) ==
    IF location.geometry = {} THEN Raise("'geometry'")
    ELSE LET geometry == CHOOSE g \in location.geometry : TRUE
         IN IF geometry.coordinates = {} THEN Raise("'coordinates'")
            ELSE CHOOSE c \in geometry.coordinates : TRUE

\* location.get('properties', {}).get('name', default): the name, or the
\* exception text.
name_of(location, default) ==
    IF location.properties = {} THEN [exc |-> "", name |-> default]
    ELSE LET properties == CHOOSE p \in location.properties : TRUE
         IN IF properties.null
            THEN [exc |-> "'NoneType' object has no attribute 'get'", name |-> <<>>]
            ELSE IF properties.name = {} THEN [exc |-> "", name |-> default]
            ELSE [exc |-> "", name |-> CHOOSE n \in properties.name : TRUE]

\* Lines 107-144 under the except clause of lines 146-148: the route of two
\* found features.  The call of line 128 always raises (see
\* calculate_distance), so lines 130-144 are written as the code has them
\* but are never reached.
build_route(source_location, dest_location, source_id, dest_id) ==
    LET source_coords == coordinates_of(source_location)
        dest_coords == coordinates_of(dest_location)
        route == generate_simple_route(source_coords, dest_coords)
        distance == calculate_distance(source_coords, dest_coords)
        source_name == name_of(source_location, source_id)
        destination_name == name_of(dest_location, dest_id)
    IN IF source_coords.t = "exc" THEN ServerError(source_coords.m)
       ELSE IF dest_coords.t = "exc" THEN ServerError(dest_coords.m)
       ELSE IF route.exc # "" THEN ServerError(route.exc)
       ELSE IF distance.t = "exc" THEN ServerError(distance.m)
       ELSE IF source_name.exc # "" THEN ServerError(source_name.exc)
       ELSE IF destination_name.exc # "" THEN ServerError(destination_name.exc)
       ELSE Reply(200,
                Body("route", "", <<>>, "", "generated_route", route.waypoints,
                     [distance |-> <<"int", distance, "m">>,
                      duration |-> <<"int", distance, "/", 80, "min">>,
                      source_id |-> source_id,
                      destination_id |-> dest_id,
                      source_name |-> source_name.name,
                      destination_name |-> destination_name.name],
                     NoneValue))

\* Lines 97-144: both lookups on the one loaded dataset, then the route.
resolve(data, source_id, dest_id) ==
    LET source_location == find_location_by_id(data, source_id)
        dest_location == find_location_by_id(data, dest_id)
        missing == lookup_error(source_location, dest_location, source_id, dest_id)
    IN IF missing # Pass THEN missing
       ELSE build_route(CHOOSE f \in source_location : TRUE,
                        CHOOSE f \in dest_location : TRUE, source_id, dest_id)

\* get_route past its load: lines 79-148.  The load is inside the try, so
\* an exception of the load is reported by the except clause.
route_response(loaded, path_name) ==
    IF loaded.exc # "" THEN ServerError(loaded.exc)
    ELSE IF loaded.value.kind = "None" THEN Unavailable
    ELSE IF format_error(path_name) # Pass THEN format_error(path_name)
    ELSE LET ids == parse_ids(path_name)
         IN IF id_error(ids[1], ids[2]) # Pass THEN id_error(ids[1], ids[2])
            ELSE resolve(loaded.value, ids[1], ids[2])

\* ------------------------------------------------------------- the inputs
\* Pieces a requested path name is joined from with the separator.
Parts == {<<>>, <<"a">>, <<"b">>, <<" ", "c", " ">>, <<"-", "t", "o">>}

RECURSIVE Join(_)
Join(ps) ==
    IF Len(ps) = 1 THEN ps[1] ELSE ps[1] \o SEP \o Join(Tail(ps))

\* The path names requested: the URL rule <path_name> matches no empty text.
Paths == {Join(ps) : ps \in UNION {[1..n -> Parts] : n \in 1..MaxParts}} \ {<<>>}

\* The inputs of the concurrent specification.
ConcFiles ==
    {SourceFile("missing", NoneValue),
     SourceFile("json", Dict({"type"}, {<<Gate>>})),
     SourceFile("json", Dict({"type"}, {<<Gate, Library>>}))}
ConcPaths == {Join(<<<<"a">>, <<"b">>>>), Join(<<<<"b">>, <<"b">>>>)}

\* ---------------------------------------------------------------- the state
VARIABLES
    file,       \* the dataset source on disk
    replaced,   \* how many times the dataset source has been replaced
    pc,         \* per request: "idle", "received", "loaded", "done"
    endpoint,   \* per request: "geojson" or "route"
    path_name,  \* per request: the <path_name> of a route request
    data,       \* per request: what its load_geojson_data() call gave
    resp        \* per request: its response

vars == <<file, replaced, pc, endpoint, path_name, data, resp>>

Requests == 1..MaxRequests
\* The request of the sequential specification.
Single == {1}

Idle ==
    /\ replaced = 0
    /\ pc = [r \in Requests |-> "idle"]
    /\ endpoint = [r \in Requests |-> ""]
    /\ path_name = [r \in Requests |-> <<>>]
    /\ data = [r \in Requests |-> Returned(NoneValue)]
    /\ resp = [r \in Requests |-> Pass]

Init == file \in Files /\ Idle

InitConc == file \in ConcFiles /\ Idle

\* The framework dispatches a request to its handler.
Receive(r, ep, p) ==
    /\ pc[r] = "idle"
    /\ pc' = [pc EXCEPT ![r] = "received"]
    /\ endpoint' = [endpoint EXCEPT ![r] = ep]
    /\ path_name' = [path_name EXCEPT ![r] = p]
    /\ UNCHANGED <<file, replaced, data, resp>>

GeojsonRequest(r) == Receive(r, "geojson", <<>>)

RouteRequest(r, paths) == \E p \in paths : Receive(r, "route", p)

\* Line 65 of get_geojson, line 78 of get_route: the handler reads the
\* dataset source.
LoadDataset(r) ==
    /\ pc[r] = "received"
    /\ data' = [data EXCEPT ![r] = load_geojson_data(file)]
    /\ pc' = [pc EXCEPT ![r] = "loaded"]
    /\ UNCHANGED <<file, replaced, endpoint, path_name, resp>>

\* The rest of get_geojson.
get_geojson(r) ==
    /\ pc[r] = "loaded"
    /\ endpoint[r] = "geojson"
    /\ resp' = [resp EXCEPT ![r] = geojson_response(data[r])]
    /\ pc' = [pc EXCEPT ![r] = "done"]
    /\ UNCHANGED <<file, replaced, endpoint, path_name, data>>

\* get_route reading the dataset source again when it answers.
get_route_reload(r) ==
    /\ pc[r] = "loaded"
    /\ endpoint[r] = "route"
    /\ resp' = [resp EXCEPT ![r] = route_response(load_geojson_data(file), path_name[r])]
    /\ pc' = [pc EXCEPT ![r] = "done"]
    /\ UNCHANGED <<file, replaced, endpoint, path_name, data>>

\* The rest of get_route.
get_route(r) ==
    /\ pc[r] = "loaded"
    /\ endpoint[r] = "route"
    /\ resp' = [resp EXCEPT ![r] = route_response(data[r], path_name[r])]
    /\ pc' = [pc EXCEPT ![r] = "done"]
    /\ UNCHANGED <<file, replaced, endpoint, path_name, data>>

\* The environment: the dataset source is replaced (a deployment).
ReplaceSource ==
    /\ replaced < MaxReplace
    /\ file' \in ConcFiles \ {file}
    /\ replaced' = replaced + 1
    /\ UNCHANGED <<pc, endpoint, path_name, data, resp>>

\* One request, every dataset source and path name.
Next ==
    \E r \in Single :
        \/ GeojsonRequest(r)
        \/ RouteRequest(r, Paths)
        \/ LoadDataset(r)
        \/ get_geojson(r)
        \/ get_route(r)

Spec == Init /\ [][Next]_vars

\* Requests served together while the dataset source may be replaced.
NextConc ==
    \/ \E r \in Requests :
        \/ GeojsonRequest(r)
        \/ RouteRequest(r, ConcPaths)
        \/ LoadDataset(r)
        \/ get_geojson(r)
        \/ get_route(r)
    \/ ReplaceSource

SpecConc == InitConc /\ [][NextConc]_vars

\* ------------------------------------------------------------- the claims
\* What the claims speak of, stated on the inputs (the dataset source and
\* the requested path name) and on the response.
RouteDone(r) == pc[r] = "done" /\ endpoint[r] = "route"
GeojsonDone(r) == pc[r] = "done" /\ endpoint[r] = "geojson"

\* The dataset source is a JSON object: the load succeeds.
DatasetLoaded == file.state = "json" /\ file.doc.kind = "dict"
\* The dataset source is absent or is no JSON text.
DatasetFailed == file.state \in {"missing", "invalid_json"}
\* The dataset source is a JSON object without a `features` member.
Featureless == DatasetLoaded /\ file.doc.features = {}

StoredFeatures == IF file.doc.features = {} THEN <<>> ELSE CHOOSE fs \in file.doc.features : TRUE
Present(id) == \E i \in 1..Len(StoredFeatures) : StoredFeatures[i].id = {id}
\* The first stored feature of that id.
Stored(id) ==
    StoredFeatures[CHOOSE i \in 1..Len(StoredFeatures) :
                      /\ StoredFeatures[i].id = {id}
                      /\ \A j \in 1..(i - 1) : StoredFeatures[j].id # {id}]
HasCoordinatePair(f) ==
    /\ f.geometry # {}
    /\ \A g \in f.geometry :
          g.coordinates # {} /\ \A c \in g.coordinates : c.t = "list" /\ Len(c.l) = 2
CoordinatesOf(f) == CHOOSE c \in (CHOOSE g \in f.geometry : TRUE).coordinates : TRUE
DisplayNames(f) == UNION {p.name : p \in f.properties}
NameOrId(f, id) == IF DisplayNames(f) = {} THEN id ELSE CHOOSE n \in DisplayNames(f) : TRUE

TwoParts(p) == Len(split(p, SEP)) = 2
SourceId(p) == strip(split(p, SEP)[1])
DestId(p) == strip(split(p, SEP)[2])
\* '<src>-to-<dst>' with distinct non-empty trimmed ids
WellFormed(p) ==
    TwoParts(p) /\ SourceId(p) # <<>> /\ DestId(p) # <<>> /\ SourceId(p) # DestId(p)
\* A well-formed request for two stored features that have coordinate pairs.
Routable(p) ==
    /\ DatasetLoaded /\ WellFormed(p)
    /\ Present(SourceId(p)) /\ Present(DestId(p))
    /\ HasCoordinatePair(Stored(SourceId(p))) /\ HasCoordinatePair(Stored(DestId(p)))

\* C1: with the dataset loaded, a route request for two distinct stored ids
\* succeeds (200) with exactly 3 coordinates, the first the source's stored
\* coordinates and the last the destination's.
C1_RouteOfStoredIds ==
    \A r \in Requests :
        RouteDone(r) /\ Routable(path_name[r]) =>
            /\ resp[r].status = 200
            /\ Len(resp[r].body.coordinates) = 3
            /\ resp[r].body.coordinates[1] = CoordinatesOf(Stored(SourceId(path_name[r])))
            /\ resp[r].body.coordinates[3] = CoordinatesOf(Stored(DestId(path_name[r])))

\* C2: when the dataset source is absent or unparseable, both endpoints
\* answer 500 "GeoJSON file not found or invalid" whatever the path name.
C2_UnavailableFirst ==
    \A r \in Requests : pc[r] = "done" /\ DatasetFailed => resp[r] = Unavailable

C2_Witness ==
    \E r \in Requests :
        /\ RouteDone(r) /\ file.state = "invalid_json"
        /\ TwoParts(path_name[r]) /\ SourceId(path_name[r]) = DestId(path_name[r])
        /\ resp[r] = Unavailable

\* C3 as stated: with the dataset loaded, a request of exactly two parts
\* whose trimmed values are equal fails with SameEndpoint.
C3_EqualIdsSameEndpoint ==
    \A r \in Requests :
        /\ RouteDone(r) /\ DatasetLoaded /\ TwoParts(path_name[r])
        /\ SourceId(path_name[r]) = DestId(path_name[r])
        => resp[r] = SameEndpoint

\* C3 amended: with the dataset loaded, a request of exactly two parts
\* whose trimmed values are equal and not empty fails with SameEndpoint,
\* whether or not the id is stored.
C3_EqualNonEmptyIdsSameEndpoint ==
    \A r \in Requests :
        /\ RouteDone(r) /\ DatasetLoaded /\ TwoParts(path_name[r])
        /\ SourceId(path_name[r]) = DestId(path_name[r])
        /\ SourceId(path_name[r]) # <<>>
        => resp[r] = SameEndpoint

C3_Witness ==
    \E r \in Requests :
        /\ RouteDone(r) /\ DatasetLoaded /\ TwoParts(path_name[r])
        /\ SourceId(path_name[r]) = DestId(path_name[r])
        /\ SourceId(path_name[r]) # <<>>
        /\ ~Present(SourceId(path_name[r]))
        /\ StoredFeatures # <<>>
        /\ resp[r] = SameEndpoint

\* C4: with the dataset loaded, a path name that does not split on '-to-'
\* into exactly two parts fails with BadFormat and nothing else.
C4_BadFormat ==
    \A r \in Requests :
        RouteDone(r) /\ DatasetLoaded /\ ~TwoParts(path_name[r]) => resp[r] = BadFormat

C4_Witness ==
    \E r \in Requests :
        /\ RouteDone(r) /\ DatasetLoaded
        /\ Len(split(path_name[r], SEP)) = 3
        /\ Present(SourceId(path_name[r])) /\ Present(DestId(path_name[r]))
        /\ SourceId(path_name[r]) # DestId(path_name[r])
        /\ resp[r] = BadFormat

\* C5: with the dataset loaded and a well-formed request, an absent source
\* id gives 404 SourceNotFound naming it, also when the destination is
\* absent too; 404 DestNotFound is given, naming the destination id, exactly
\* when the source id is stored and the destination id is not.
C5_SourceBeforeDestination ==
    \A r \in Requests :
        RouteDone(r) /\ DatasetLoaded /\ WellFormed(path_name[r]) =>
            LET s == SourceId(path_name[r])
                d == DestId(path_name[r])
            IN /\ ~Present(s) => resp[r] = SourceNotFound(s)
               /\ Present(s) /\ ~Present(d) => resp[r] = DestNotFound(d)
               /\ resp[r].body.error = DestNotFound(d).body.error
                    => Present(s) /\ ~Present(d) /\ resp[r] = DestNotFound(d)

C5_Witness ==
    \E r \in Requests :
        /\ RouteDone(r) /\ DatasetLoaded /\ WellFormed(path_name[r])
        /\ StoredFeatures # <<>>
        /\ ~Present(SourceId(path_name[r])) /\ ~Present(DestId(path_name[r]))
        /\ resp[r] = SourceNotFound(SourceId(path_name[r]))

\* C6: no request to an endpoint that needs the dataset ends with a fault
\* leaving the handler: every response other than a success is a body with
\* the single member `error`, and a fault of the route handler is reported
\* as 500 "Server error: <message>".
C6_NoFaultEscapes ==
    \A r \in Requests :
        pc[r] = "done" =>
            /\ resp[r].body.shape # "unhandled"
            /\ resp[r].status # 200 => resp[r].body.shape = "error"
            /\ endpoint[r] = "route" /\ file.state = "unreadable"
                 => resp[r] = ServerError(UnicodeDecodeError)

\* C7 as stated: a dataset source that parses but has no `features` member
\* makes both endpoints answer 500 "GeoJSON file not found or invalid".
C7_FeaturelessIsUnavailable ==
    \A r \in Requests : pc[r] = "done" /\ Featureless => resp[r] = Unavailable

\* C7 amended: a dataset source that parses as a JSON object without a
\* `features` member loads: the dataset endpoint answers 200 with that
\* document, and the route endpoint never answers with the dataset-unavailable
\* 500; its well-formed requests get 404 SourceNotFound.
C7_FeaturelessIsEmpty ==
    \A r \in Requests :
        pc[r] = "done" /\ Featureless =>
            /\ endpoint[r] = "geojson" =>
                  /\ resp[r].status = 200
                  /\ resp[r].body.shape = "dataset"
                  /\ resp[r].body.data = file.doc
            /\ endpoint[r] = "route" =>
                  /\ resp[r] # Unavailable
                  /\ resp[r].status \in {400, 404}
                  /\ WellFormed(path_name[r])
                       => resp[r] = SourceNotFound(SourceId(path_name[r]))

C7_Witness ==
    \E r \in Requests :
        /\ RouteDone(r) /\ Featureless /\ file.doc.members # {}
        /\ WellFormed(path_name[r])
        /\ resp[r] = SourceNotFound(SourceId(path_name[r]))

\* C8: a successful route response names each endpoint by the feature's
\* display name, or by its id when the feature has none; a feature without
\* a display name or without a properties block never makes the request
\* fail.
C8_NameOrId ==
    \A r \in Requests :
        RouteDone(r) /\ Routable(path_name[r]) =>
            LET s == SourceId(path_name[r])
                d == DestId(path_name[r])
            IN /\ resp[r].status = 200
               /\ resp[r].body.properties.source_name = NameOrId(Stored(s), s)
               /\ resp[r].body.properties.destination_name = NameOrId(Stored(d), d)

\* C9: for the coordinate pairs src and dst of a request being served, the
\* geometry routine returns [src, midpoint, dst], the midpoint being the
\* component-wise average.
C9_Midpoint ==
    \A r \in Requests :
        pc[r] \in {"loaded", "done"} /\ endpoint[r] = "route" /\ Routable(path_name[r]) =>
            LET src == CoordinatesOf(Stored(SourceId(path_name[r])))
                dst == CoordinatesOf(Stored(DestId(path_name[r])))
            IN generate_simple_route(src, dst) =
                  [exc |-> "",
                   waypoints |-> <<src,
                                   List(<<(src.l[1] + dst.l[1]) \div 2,
                                          (src.l[2] + dst.l[2]) \div 2>>),
                                   dst>>]

\* The response of a request that is the only one ever made, for what the
\* dataset source gives.
Answer(ep, loaded, p) ==
    IF ep = "geojson" THEN geojson_response(loaded) ELSE route_response(loaded, p)

\* C10: every request is answered from the one snapshot of the dataset it
\* loaded, and, the dataset source unchanged, with the response it gets as
\* the only request ever made, however the requests interleave.
C10_Stateless ==
    \A r \in Requests :
        pc[r] = "done" =>
            /\ resp[r] = Answer(endpoint[r], data[r], path_name[r])
            /\ replaced = 0 =>
                  resp[r] = Answer(endpoint[r], load_geojson_data(file), path_name[r])

C10_Witness ==
    \E r, s \in Requests :
        /\ r # s /\ RouteDone(r) /\ RouteDone(s)
        /\ replaced = 0 /\ DatasetLoaded
        /\ path_name[r] # path_name[s]
        /\ resp[r] # resp[s]

====
